---- MODULE Spec2Model ----
(***************************************************************************)
(* A model of BufferPoolManager (src/buffer/buffer_pool_manager.cpp).      *)
(*                                                                         *)
(* The state is the manager's members: pages_ (the frame array),           *)
(* page_table_, free_list_, the replacer (the eviction-candidate chooser)  *)
(* and the disk manager (the persistent store).  Each public member        *)
(* function is one action.  Page, ClockReplacer and DiskManager are not    *)
(* part of buffer_pool_manager.cpp; they are modelled by their contracts.  *)
(*                                                                         *)
(* The member functions take no latch.  `threads` holds the position of    *)
(* each thread inside a call, for the specification in which the calls of  *)
(* several threads interleave statement by statement.                      *)
(*                                                                         *)
(* Besides the program state the model keeps observation variables that    *)
(* the program does not have: `last` records what the most recent call     *)
(* saw and returned, `marked` and `final` record the history needed to     *)
(* state the durability properties, `stage` follows the capacity scenario.  *)
(***************************************************************************)
EXTENDS Integers, Sequences, FiniteSets, TLC

\* ------------------------------------------------------------------ bounds
NumFrames == 2          \* pool_size_
NumStored == 1          \* pages the store already holds when the pool is built
MaxAlloc == 2           \* AllocatePage calls explored
MaxPin == 2             \* pin_count_ values explored by FetchPage hits
MaxContent == 1         \* buffer contents are 0 (all-zero) .. MaxContent
NumThreads == 2         \* threads that call into the pool concurrently

Frames == 0 .. (NumFrames - 1)
MaxPage == NumStored + MaxAlloc
PageIds == 0 .. (MaxPage - 1)
\* The capacity scenario fills the pool and then allocates once more.
FreshLimit == MaxPage + 1
StoreIds == 0 .. (FreshLimit - 1)
Content == 0 .. MaxContent
Threads == 1 .. NumThreads

\* ------------------------------------------------- values of the program
INVALID_PAGE_ID == -1
\* Page::ResetMemory leaves an all-zero buffer.
ZeroData == 0
\* nullptr, as the result of GetVictimPage / FetchPageImpl / NewPageImpl.
NoFrame == -1
\* "no content", for the observation variables only: a value outside Content.
None == 0 - 1 - MaxContent
\* A frame_id_t that is no index of pages_ (see DanglingSecond).
OutOfRange == NumFrames

VARIABLES
    pages,          \* pages_[f] = [page_id, pin_count, is_dirty, data]
    page_table,     \* page_table_ : page_id -> frame_id (a partial function)
    free_list,      \* free_list_ : sequence of frame_id
    replacer,       \* the frames the chooser holds as eviction-eligible
    disk,           \* disk[page_id] : what the store holds for the page
    next_page_id,   \* the identifier AllocatePage returns next
    crashed,        \* the process indexed pages_ out of range
    last,           \* observation of the most recent call
    marked,         \* marked[f]: UnpinPage(id, true) was called in this residency
    final,          \* the latest page all holders released dirty: its id, buffer, frame
    stage,          \* where the run stands in the capacity scenario
    threads         \* threads[t]: the call thread t is in, its position and locals

vars == <<pages, page_table, free_list, replacer, disk, next_page_id, crashed,
          last, marked, final, stage, threads>>

\* ------------------------------------------------------------ page table
Resident(page_id) == page_id \in DOMAIN page_table

Erase(pt, k) == [x \in (DOMAIN pt) \ {k} |-> pt[x]]

Insert(pt, k, v) == [x \in (DOMAIN pt) \cup {k} |-> IF x = k THEN v ELSE pt[x]]

\* ------------------------------------------------------------------ Page
NewPage == [page_id |-> INVALID_PAGE_ID, pin_count |-> 0, is_dirty |-> FALSE,
            data |-> ZeroData]

\* ------------------------------------------------------------ the store
ReadPage(d, page_id) == d[page_id]

WritePage(d, page_id, data) ==
    IF page_id \in DOMAIN d THEN [d EXCEPT ![page_id] = data] ELSE d

\* ------------------------------------------------------------ the chooser
ReplacerPin(r, f) == r \ {f}

ReplacerUnpin(r, f) == r \cup {f}

\* Victim: any eligible frame may be the one the policy picks; it leaves the
\* chooser.  The empty set is "no victim".
ReplacerVictim(r) == {[frame_id |-> f, replacer |-> r \ {f}] : f \in r}

\* ----------------------------------------------------------- observation
NoObs == [op |-> "init", id |-> INVALID_PAGE_ID, dirty |-> FALSE, ret |-> FALSE,
          frame |-> NoFrame, resident |-> FALSE, pinBefore |-> 0,
          victim |-> NoFrame, victimPin |-> 0, fromFree |-> FALSE,
          reads |-> <<>>, writes |-> <<>>,
          allPinned |-> FALSE, marked |-> FALSE, expect |-> None]

\* `on` switches the history variables on: they are kept only in the
\* specification that states the durability properties.
NoFinal == [on |-> FALSE, id |-> INVALID_PAGE_ID, c |-> None, f |-> NoFrame]

Tracking == [NoFinal EXCEPT !.on = TRUE]

AllPinned == \A f \in Frames : pages[f].pin_count > 0

\* A thread outside any call.  In a call, pc is the statement it is about to
\* run, frame is its local frame_id / p_iterator->second, and ret is what a
\* finished call returned (a page, or true).
Idle == [pc |-> "idle", op |-> "none", id |-> INVALID_PAGE_ID, dirty |-> FALSE,
         frame |-> NoFrame, ret |-> FALSE]

NoThreads == [t \in Threads |-> Idle]

\* The capacity scenario: the pool is filled by new_page calls alone ("fill",
\* n of them so far), is then full ("full"), is probed by a new_page or by a
\* fetch of a non-resident identifier ("probed"), one of the pages is
\* released by unpin(p, false) ("released", with the slot that held p), and
\* new_page is called once more ("done").  Any other call ends it ("off").
NoStage == [ph |-> "off", n |-> 0, slot |-> NoFrame, byNew |-> FALSE,
            byFetch |-> FALSE]

Filling == [NoStage EXCEPT !.ph = "fill"]

\* The stage after a call that left the observation obs.
StageAfter(obs) ==
    CASE stage.ph = "fill" ->
           IF obs.op = "new" /\ obs.ret
           THEN IF stage.n + 1 = NumFrames
                THEN [stage EXCEPT !.ph = "full", !.n = NumFrames]
                ELSE [stage EXCEPT !.n = stage.n + 1]
           ELSE NoStage
      [] stage.ph \in {"full", "probed"} ->
           IF obs.op = "new"
           THEN [stage EXCEPT !.ph = "probed", !.byNew = TRUE]
           ELSE IF obs.op = "fetch" /\ ~obs.resident
           THEN [stage EXCEPT !.ph = "probed", !.byFetch = TRUE]
           ELSE IF obs.op = "write"
           THEN [stage EXCEPT !.ph = "full"]
           ELSE IF obs.op = "unpin" /\ obs.resident /\ ~obs.dirty
           THEN [stage EXCEPT !.ph = "released", !.slot = obs.frame]
           ELSE NoStage
      [] stage.ph = "released" ->
           IF obs.op = "new" THEN [stage EXCEPT !.ph = "done"]
           ELSE IF obs.op = "write" THEN stage
           ELSE NoStage
      [] OTHER -> NoStage

\* ------------------------------------------------------------ constructor
\* The state the constructor leaves, with the store holding pages 0 ..
\* NumStored - 1 with any contents.
Init ==
    /\ pages = [f \in Frames |-> NewPage]
    /\ page_table = <<>>
    /\ free_list = [i \in 1 .. NumFrames |-> i - 1]
    /\ replacer = {}
    /\ disk \in {d \in [StoreIds -> Content] :
                    \A id \in StoreIds : id >= NumStored => d[id] = ZeroData}
    /\ next_page_id = NumStored
    /\ crashed = FALSE
    /\ last = NoObs
    /\ marked = [f \in Frames |-> FALSE]
    /\ final = NoFinal
    /\ stage = NoStage
    /\ threads = NoThreads

\* --------------------------------------------------------- GetVictimPage
\* An acquisition that asks the chooser first and takes the free list's front
\* only when the chooser has no eligible frame.
GetVictimPageChooserFirst ==
    IF replacer # {}
    THEN {[frame_id |-> v.frame_id, free_list |-> free_list,
           replacer |-> v.replacer, fromFree |-> FALSE] :
             v \in ReplacerVictim(replacer)}
    ELSE IF free_list = <<>> THEN {}
    ELSE {[frame_id |-> Head(free_list), free_list |-> Tail(free_list),
           replacer |-> replacer, fromFree |-> TRUE]}

\* An acquisition that returns the front of the free list and leaves it there.
GetVictimPageNoPop ==
    IF free_list = <<>>
    THEN {[frame_id |-> v.frame_id, free_list |-> free_list,
           replacer |-> v.replacer, fromFree |-> FALSE] :
             v \in ReplacerVictim(replacer)}
    ELSE {[frame_id |-> Head(free_list), free_list |-> free_list,
           replacer |-> replacer, fromFree |-> TRUE]}

\* The outcomes of GetVictimPage: the set is empty when it returns nullptr.
GetVictimPage ==
    IF free_list = <<>>
    THEN {[frame_id |-> v.frame_id, free_list |-> free_list,
           replacer |-> v.replacer, fromFree |-> FALSE] :
             v \in ReplacerVictim(replacer)}
    ELSE {[frame_id |-> Head(free_list), free_list |-> Tail(free_list),
           replacer |-> replacer, fromFree |-> TRUE]}

\* ---------------------------------------------------------- FetchPageImpl
\* page->pin_count_++ of a page found in the page table.
HitPinCount(pin_count) == pin_count + 1

\* page->pin_count_ = 1 of a page brought in.
MissPinCount == 1

\* A fetch that brings the page in and never reads it.
MissReadsNothing(page_id) == <<>>

\* The ReadPage calls of a fetch that brings the page in.
MissReads(page_id) == <<page_id>>

\* The WritePage calls for the victim R: "if R is dirty, write it back".
VictimWrites(page) == IF page.is_dirty THEN <<page.page_id>> ELSE <<>>

\* The buffer after ResetMemory and the ReadPage calls `reads` from store d.
BufferAfter(d, reads) ==
    IF reads = <<>> THEN ZeroData ELSE ReadPage(d, reads[Len(reads)])

\* What a round trip expects a fetch of page_id to return: the buffer the last
\* holder left, once the frame that held it has been given to another page.
Expect(page_id) ==
    IF /\ final.id = page_id
       /\ pages[final.f].page_id # page_id
    THEN final.c
    ELSE None

\* Callers fetch identifiers the store has handed out or already holds
\* (page_id < next_page_id); MaxPin caps the holders of one page.
FetchPageImpl(page_id) ==
    /\ ~crashed
    /\ page_id < next_page_id
    /\ IF Resident(page_id)
       THEN LET f == page_table[page_id]
                page == pages[f]
            IN  /\ page.pin_count < MaxPin
                /\ replacer' = ReplacerPin(replacer, f)
                /\ pages' = [pages EXCEPT ![f].pin_count = HitPinCount(page.pin_count)]
                /\ last' = [NoObs EXCEPT !.op = "fetch", !.id = page_id, !.ret = TRUE,
                                         !.frame = f, !.resident = TRUE,
                                         !.pinBefore = page.pin_count,
                                         !.allPinned = AllPinned]
                /\ UNCHANGED <<page_table, free_list, disk, next_page_id, crashed,
                               marked, final>>
       ELSE IF GetVictimPage = {}
       THEN /\ last' = [NoObs EXCEPT !.op = "fetch", !.id = page_id,
                                     !.allPinned = AllPinned, !.expect = Expect(page_id)]
            /\ UNCHANGED <<pages, page_table, free_list, replacer, disk,
                           next_page_id, crashed, marked, final>>
       ELSE \E v \in GetVictimPage :
            IF v.frame_id \notin Frames
            THEN \* &pages_[*frame_id] is outside the array
                 /\ crashed' = TRUE
                 /\ free_list' = v.free_list
                 /\ last' = [NoObs EXCEPT !.op = "crash", !.id = page_id]
                 /\ UNCHANGED <<pages, page_table, replacer, disk, next_page_id,
                                marked, final>>
            ELSE LET f == v.frame_id
                     page == pages[f]
                     writes == VictimWrites(page)
                     d1 == IF writes = <<>> THEN disk
                           ELSE WritePage(disk, page.page_id, page.data)
                     reads == MissReads(page_id)
                 IN  /\ free_list' = v.free_list
                     /\ replacer' = v.replacer
                     /\ disk' = d1
                     /\ page_table' = Insert(Erase(page_table, page.page_id), page_id, f)
                     /\ pages' = [pages EXCEPT ![f] =
                                    [page_id |-> page_id, pin_count |-> MissPinCount,
                                     is_dirty |-> page.is_dirty,
                                     data |-> BufferAfter(d1, reads)]]
                     /\ marked' = [marked EXCEPT ![f] = FALSE]
                     /\ final' = IF final.id = page_id THEN Tracking ELSE final
                     /\ last' = [NoObs EXCEPT !.op = "fetch", !.id = page_id,
                                   !.ret = TRUE, !.frame = f, !.victim = f,
                                   !.victimPin = page.pin_count,
                                   !.fromFree = v.fromFree,
                                   !.reads = reads, !.writes = writes,
                                   !.allPinned = AllPinned,
                                   !.expect = Expect(page_id)]
                     /\ UNCHANGED <<next_page_id, crashed>>
    /\ stage' = StageAfter(last')
    /\ UNCHANGED threads

\* ---------------------------------------------------------- UnpinPageImpl
\* The decrement without its guard.
UnpinDecrementUnguarded(pin_count) == pin_count - 1

\* if (page->pin_count_ > 0) page->pin_count_--;
UnpinDecrement(pin_count) == IF pin_count > 0 THEN pin_count - 1 ELSE pin_count

UnpinPageImpl(page_id, is_dirty) ==
    /\ ~crashed
    /\ IF Resident(page_id)
       THEN LET f == page_table[page_id]
                page == pages[f]
                pc == UnpinDecrement(page.pin_count)
                writes == IF pc = 0 /\ is_dirty THEN <<page.page_id>> ELSE <<>>
                m == final.on /\ (marked[f] \/ is_dirty)
            IN  /\ pages' = [pages EXCEPT ![f].pin_count = pc]
                /\ disk' = IF writes = <<>> THEN disk
                           ELSE WritePage(disk, page.page_id, page.data)
                /\ replacer' = IF pc = 0 THEN ReplacerUnpin(replacer, f) ELSE replacer
                /\ page_table' = IF pc = 0 THEN Erase(page_table, page_id)
                                 ELSE page_table
                /\ marked' = [marked EXCEPT ![f] = (pc # 0 /\ m)]
                /\ final' = IF pc = 0 /\ m
                            THEN [on |-> TRUE, id |-> page_id, c |-> page.data, f |-> f]
                            ELSE final
                /\ last' = [NoObs EXCEPT !.op = "unpin", !.id = page_id,
                              !.dirty = is_dirty, !.ret = (pc = 0), !.frame = f,
                              !.resident = TRUE, !.pinBefore = page.pin_count,
                              !.writes = writes, !.allPinned = AllPinned,
                              !.marked = m]
                /\ UNCHANGED <<free_list, next_page_id, crashed>>
       ELSE /\ last' = [NoObs EXCEPT !.op = "unpin", !.id = page_id,
                          !.dirty = is_dirty, !.allPinned = AllPinned]
            /\ UNCHANGED <<pages, page_table, free_list, replacer, disk,
                           next_page_id, crashed, marked, final>>
    /\ stage' = StageAfter(last')
    /\ UNCHANGED threads

\* ------------------------------------------------------------ NewPageImpl
\* page->pin_count_ = 0 of the page created.
NewPagePinCount == 0

\* AllocatePage is called only when a victim was found; limit caps the
\* identifiers it hands out.
NewPageImpl(limit) ==
    /\ ~crashed
    /\ IF GetVictimPage = {}
       THEN /\ last' = [NoObs EXCEPT !.op = "new", !.allPinned = AllPinned]
            /\ UNCHANGED <<pages, page_table, free_list, replacer, disk,
                           next_page_id, crashed, marked, final>>
       ELSE \E v \in GetVictimPage :
            IF v.frame_id \notin Frames
            THEN /\ crashed' = TRUE
                 /\ free_list' = v.free_list
                 /\ last' = [NoObs EXCEPT !.op = "crash"]
                 /\ UNCHANGED <<pages, page_table, replacer, disk, next_page_id,
                                marked, final>>
            ELSE LET f == v.frame_id
                     page == pages[f]
                     id == next_page_id
                 IN  /\ next_page_id < limit
                     /\ next_page_id' = next_page_id + 1
                     /\ free_list' = v.free_list
                     /\ replacer' = v.replacer
                     /\ page_table' = Insert(page_table, id, f)
                     /\ pages' = [pages EXCEPT ![f] =
                                    [page_id |-> id, pin_count |-> NewPagePinCount,
                                     is_dirty |-> page.is_dirty, data |-> ZeroData]]
                     /\ marked' = [marked EXCEPT ![f] = FALSE]
                     /\ final' = IF final.id = id THEN Tracking ELSE final
                     /\ last' = [NoObs EXCEPT !.op = "new", !.id = id, !.ret = TRUE,
                                   !.frame = f, !.victim = f,
                                   !.victimPin = page.pin_count,
                                   !.fromFree = v.fromFree,
                                   !.resident = Resident(id),
                                   !.allPinned = AllPinned]
                     /\ UNCHANGED <<disk, crashed>>
    /\ stage' = StageAfter(last')
    /\ UNCHANGED threads

\* ---------------------------------------------------------- FlushPageImpl
\* A flush that writes only a page whose dirty flag is set.
FlushWritesIfDirty(page, page_id) == IF page.is_dirty THEN <<page_id>> ELSE <<>>

\* disk_manager_->WritePage(page_id, page->data_), whatever is_dirty_ is.
FlushWrites(page, page_id) == <<page_id>>

FlushPageImpl(page_id) ==
    /\ ~crashed
    /\ IF Resident(page_id)
       THEN LET f == page_table[page_id]
                page == pages[f]
                writes == FlushWrites(page, page_id)
            IN  /\ disk' = IF writes = <<>> THEN disk
                           ELSE WritePage(disk, page_id, page.data)
                /\ replacer' = ReplacerUnpin(replacer, f)
                /\ page_table' = Erase(page_table, page_id)
                /\ last' = [NoObs EXCEPT !.op = "flush", !.id = page_id, !.ret = TRUE,
                              !.frame = f, !.resident = TRUE,
                              !.pinBefore = page.pin_count,
                              !.writes = writes, !.allPinned = AllPinned]
                /\ UNCHANGED <<pages, free_list, next_page_id, crashed, marked, final>>
       ELSE /\ last' = [NoObs EXCEPT !.op = "flush", !.id = page_id,
                          !.allPinned = AllPinned]
            /\ UNCHANGED <<pages, page_table, free_list, replacer, disk,
                           next_page_id, crashed, marked, final>>
    /\ stage' = StageAfter(last')
    /\ UNCHANGED threads

\* ------------------------------------------------------ FlushAllPagesImpl
\* The identifiers of s in ascending order.  The loop writes each resident
\* page once under its own identifier, so the store it leaves does not depend
\* on the order in which the table is walked.
RECURSIVE Ascending(_)
Ascending(s) ==
    IF s = {} THEN <<>>
    ELSE LET m == CHOOSE x \in s : \A y \in s : x <= y
         IN  <<m>> \o Ascending(s \ {m})

FlushAllPagesImpl ==
    /\ ~crashed
    /\ disk' = [id \in DOMAIN disk |->
                  IF Resident(id) THEN pages[page_table[id]].data ELSE disk[id]]
    /\ replacer' = replacer \cup {page_table[id] : id \in DOMAIN page_table}
    /\ page_table' = <<>>
    /\ last' = [NoObs EXCEPT !.op = "flushall",
                  !.writes = Ascending(DOMAIN page_table),
                  !.allPinned = AllPinned]
    /\ UNCHANGED <<pages, free_list, next_page_id, crashed, marked, final>>
    /\ stage' = StageAfter(last')
    /\ UNCHANGED threads

\* --------------------------------------------------------- DeletePageImpl
\* free_list_.push_back(p_iterator->second) runs after
\* page_table_.erase(p_iterator->first) has destroyed the node p_iterator
\* points to: the read of ->second is a read of freed memory.  It yields the
\* frame the node held when the allocator left the node untouched, and any
\* other frame_id_t when it did not.
DanglingSecond(f) == Frames \cup {OutOfRange}

\* A test that lets a page with a single holder be deleted.
DeleteRefusedAboveOne(pin_count) == pin_count > 1

\* if (page->pin_count_ > 0) return false;
DeleteRefused(pin_count) == pin_count > 0

DeletePageImpl(page_id) ==
    /\ ~crashed
    /\ IF Resident(page_id)
       THEN LET f == page_table[page_id]
                page == pages[f]
            IN  IF DeleteRefused(page.pin_count)
                THEN /\ last' = [NoObs EXCEPT !.op = "delete", !.id = page_id,
                                   !.frame = f, !.resident = TRUE,
                                   !.pinBefore = page.pin_count,
                                   !.allPinned = AllPinned]
                     /\ UNCHANGED <<pages, page_table, free_list, replacer, disk,
                                    next_page_id, crashed, marked, final>>
                ELSE \E pushed \in DanglingSecond(f) :
                     /\ page_table' = Erase(page_table, page_id)
                     /\ pages' = [pages EXCEPT ![f] =
                                    [page_id |-> INVALID_PAGE_ID, pin_count |-> 0,
                                     is_dirty |-> FALSE, data |-> page.data]]
                     /\ free_list' = Append(free_list, pushed)
                     /\ marked' = [marked EXCEPT ![f] = FALSE]
                     /\ last' = [NoObs EXCEPT !.op = "delete", !.id = page_id,
                                   !.ret = TRUE, !.frame = f, !.resident = TRUE,
                                   !.pinBefore = page.pin_count,
                                   !.victim = pushed,
                                   !.allPinned = AllPinned]
                     /\ UNCHANGED <<replacer, disk, next_page_id, crashed, final>>
       ELSE /\ last' = [NoObs EXCEPT !.op = "delete", !.id = page_id, !.ret = TRUE,
                          !.allPinned = AllPinned]
            /\ UNCHANGED <<pages, page_table, free_list, replacer, disk,
                           next_page_id, crashed, marked, final>>
    /\ stage' = StageAfter(last')
    /\ UNCHANGED threads

\* ------------------------------------------------------------ the holders
\* A holder of the Page* that FetchPage or NewPage returned writes its buffer.
Held(f) == pages[f].pin_count > 0 \/ \E id \in DOMAIN page_table : page_table[id] = f

HolderWrite(f, c) ==
    /\ ~crashed
    /\ Held(f)
    /\ pages[f].data # c
    /\ pages' = [pages EXCEPT ![f].data = c]
    /\ last' = [NoObs EXCEPT !.op = "write", !.frame = f, !.allPinned = AllPinned]
    /\ UNCHANGED <<page_table, free_list, replacer, disk, next_page_id, crashed,
                   marked, final>>
    /\ stage' = StageAfter(last')
    /\ UNCHANGED threads

\* ------------------------------------------------------- specifications
\* All six public operations and the holders.
Next ==
    \/ \E page_id \in PageIds : FetchPageImpl(page_id)
    \/ \E page_id \in PageIds, is_dirty \in BOOLEAN : UnpinPageImpl(page_id, is_dirty)
    \/ NewPageImpl(MaxPage)
    \/ \E page_id \in PageIds : FlushPageImpl(page_id)
    \/ FlushAllPagesImpl
    \/ \E page_id \in PageIds : DeletePageImpl(page_id)
    \/ \E f \in Frames, c \in Content : HolderWrite(f, c)

Spec == Init /\ [][Next]_vars

\* Only fetch, unpin and new_page, and the holders.
NextCore ==
    \/ \E page_id \in PageIds : FetchPageImpl(page_id)
    \/ \E page_id \in PageIds, is_dirty \in BOOLEAN : UnpinPageImpl(page_id, is_dirty)
    \/ NewPageImpl(MaxPage)
    \/ \E f \in Frames, c \in Content : HolderWrite(f, c)

SpecCore == Init /\ [][NextCore]_vars

\* The same operations with the history variables switched on.
InitTracked ==
    /\ pages = [f \in Frames |-> NewPage]
    /\ page_table = <<>>
    /\ free_list = [i \in 1 .. NumFrames |-> i - 1]
    /\ replacer = {}
    /\ disk \in {d \in [StoreIds -> Content] :
                    \A id \in StoreIds : id >= NumStored => d[id] = ZeroData}
    /\ next_page_id = NumStored
    /\ crashed = FALSE
    /\ last = NoObs
    /\ marked = [f \in Frames |-> FALSE]
    /\ final = Tracking
    /\ stage = NoStage
    /\ threads = NoThreads

SpecTracked == InitTracked /\ [][NextCore]_vars

\* The capacity scenario: the constructor's state, then calls for as long as
\* the scenario lasts, with one more AllocatePage than the pool has frames.
InitFresh ==
    /\ pages = [f \in Frames |-> NewPage]
    /\ page_table = <<>>
    /\ free_list = [i \in 1 .. NumFrames |-> i - 1]
    /\ replacer = {}
    /\ disk \in {d \in [StoreIds -> Content] :
                    \A id \in StoreIds : id >= NumStored => d[id] = ZeroData}
    /\ next_page_id = NumStored
    /\ crashed = FALSE
    /\ last = NoObs
    /\ marked = [f \in Frames |-> FALSE]
    /\ final = NoFinal
    /\ stage = Filling
    /\ threads = NoThreads

NextFresh ==
    /\ stage.ph # "off"
    /\ \/ \E page_id \in StoreIds : FetchPageImpl(page_id)
       \/ \E page_id \in StoreIds, is_dirty \in BOOLEAN :
            UnpinPageImpl(page_id, is_dirty)
       \/ NewPageImpl(FreshLimit)
       \/ \E page_id \in StoreIds : FlushPageImpl(page_id)
       \/ FlushAllPagesImpl
       \/ \E page_id \in StoreIds : DeletePageImpl(page_id)
       \/ \E f \in Frames, c \in Content : HolderWrite(f, c)

SpecFresh == InitFresh /\ [][NextFresh]_vars

\* ------------------------------------------------------ concurrent calls
\* No member function takes a latch, so the statements of the calls that
\* several threads make interleave.  Each thread makes one call, FetchPage or
\* UnpinPage; a step is what one thread does between two accesses to the
\* shared members.

\* page_table_.find(page_id) of FetchPageImpl.
FetchFind(t, page_id) ==
    /\ ~crashed
    /\ threads[t].pc = "idle"
    /\ page_id < next_page_id
    /\ threads' = [threads EXCEPT ![t] =
                     IF Resident(page_id)
                     THEN [Idle EXCEPT !.pc = "hit", !.op = "fetch", !.id = page_id,
                                       !.frame = page_table[page_id]]
                     ELSE [Idle EXCEPT !.pc = "miss", !.op = "fetch",
                                       !.id = page_id]]
    /\ UNCHANGED <<pages, page_table, free_list, replacer, disk, next_page_id,
                   crashed, last, marked, final, stage>>

\* replacer_->Pin; page->pin_count_++; return page.
FetchHit(t) ==
    /\ ~crashed
    /\ threads[t].pc = "hit"
    /\ LET f == threads[t].frame
       IN  /\ replacer' = ReplacerPin(replacer, f)
           /\ pages' = [pages EXCEPT ![f].pin_count =
                          HitPinCount(pages[f].pin_count)]
    /\ threads' = [threads EXCEPT ![t].pc = "done", ![t].ret = TRUE]
    /\ UNCHANGED <<page_table, free_list, disk, next_page_id, crashed, last,
                   marked, final, stage>>

\* GetVictimPage up to *frame_id = free_list_.front(), or the whole of it
\* when the free list is empty.
VictimFront(t) ==
    /\ ~crashed
    /\ threads[t].pc = "miss"
    /\ IF free_list # <<>>
       THEN /\ threads' = [threads EXCEPT ![t].pc = "pop",
                                          ![t].frame = Head(free_list)]
            /\ UNCHANGED replacer
       ELSE IF ReplacerVictim(replacer) = {}
       THEN /\ threads' = [threads EXCEPT ![t].pc = "done"]
            /\ UNCHANGED replacer
       ELSE \E v \in ReplacerVictim(replacer) :
            /\ replacer' = v.replacer
            /\ threads' = [threads EXCEPT ![t].pc = "install",
                                          ![t].frame = v.frame_id]
    /\ UNCHANGED <<pages, page_table, free_list, disk, next_page_id, crashed,
                   last, marked, final, stage>>

\* free_list_.pop_front(); on a list another thread has emptied meanwhile it
\* has no defined outcome.
VictimPop(t) ==
    /\ ~crashed
    /\ threads[t].pc = "pop"
    /\ IF free_list = <<>>
       THEN /\ crashed' = TRUE
            /\ threads' = [threads EXCEPT ![t].pc = "done"]
            /\ UNCHANGED free_list
       ELSE /\ free_list' = Tail(free_list)
            /\ threads' = [threads EXCEPT ![t].pc = "install"]
            /\ UNCHANGED crashed
    /\ UNCHANGED <<pages, page_table, replacer, disk, next_page_id, last,
                   marked, final, stage>>

\* The body of if (page != nullptr) of FetchPageImpl, and return page.
FetchInstall(t) ==
    /\ ~crashed
    /\ threads[t].pc = "install"
    /\ LET f == threads[t].frame
           page_id == threads[t].id
           page == pages[f]
           writes == VictimWrites(page)
           d1 == IF writes = <<>> THEN disk
                 ELSE WritePage(disk, page.page_id, page.data)
       IN  /\ disk' = d1
           /\ page_table' = Insert(Erase(page_table, page.page_id), page_id, f)
           /\ pages' = [pages EXCEPT ![f] =
                          [page_id |-> page_id, pin_count |-> MissPinCount,
                           is_dirty |-> page.is_dirty,
                           data |-> BufferAfter(d1, MissReads(page_id))]]
    /\ threads' = [threads EXCEPT ![t].pc = "done", ![t].ret = TRUE]
    /\ UNCHANGED <<free_list, replacer, next_page_id, crashed, last, marked,
                   final, stage>>

\* page_table_.find(page_id) of UnpinPageImpl.
UnpinFind(t, page_id, is_dirty) ==
    /\ ~crashed
    /\ threads[t].pc = "idle"
    /\ page_id < next_page_id
    /\ threads' = [threads EXCEPT ![t] =
                     IF Resident(page_id)
                     THEN [Idle EXCEPT !.pc = "unpin", !.op = "unpin",
                                       !.id = page_id, !.dirty = is_dirty,
                                       !.frame = page_table[page_id]]
                     ELSE [Idle EXCEPT !.pc = "done", !.op = "unpin",
                                       !.id = page_id, !.dirty = is_dirty]]
    /\ UNCHANGED <<pages, page_table, free_list, replacer, disk, next_page_id,
                   crashed, last, marked, final, stage>>

\* The body of if (p_iterator != page_table_.end()) of UnpinPageImpl.
UnpinApply(t) ==
    /\ ~crashed
    /\ threads[t].pc = "unpin"
    /\ LET f == threads[t].frame
           page == pages[f]
           pc == UnpinDecrement(page.pin_count)
       IN  /\ pages' = [pages EXCEPT ![f].pin_count = pc]
           /\ disk' = IF pc = 0 /\ threads[t].dirty
                      THEN WritePage(disk, page.page_id, page.data)
                      ELSE disk
           /\ replacer' = IF pc = 0 THEN ReplacerUnpin(replacer, f) ELSE replacer
           /\ page_table' = IF pc = 0 THEN Erase(page_table, threads[t].id)
                            ELSE page_table
           /\ threads' = [threads EXCEPT ![t].pc = "done", ![t].ret = (pc = 0)]
    /\ UNCHANGED <<free_list, next_page_id, crashed, last, marked, final, stage>>

NextConcurrent ==
    \E t \in Threads :
       \/ \E page_id \in PageIds : FetchFind(t, page_id)
       \/ FetchHit(t)
       \/ VictimFront(t)
       \/ VictimPop(t)
       \/ FetchInstall(t)
       \/ \E page_id \in PageIds, is_dirty \in BOOLEAN :
            UnpinFind(t, page_id, is_dirty)
       \/ UnpinApply(t)

SpecConcurrent == Init /\ [][NextConcurrent]_vars

\* ================================================================ claims
Reusable == replacer \cup {free_list[i] : i \in DOMAIN free_list}

VictimTaken == last.op \in {"fetch", "new"} /\ last.victim # NoFrame

\* C1: under fetch, unpin and new_page alone, no frame's pin_count is ever
\* negative, and the frame that fetch or new_page obtains from the free list
\* or from the chooser has pin_count 0 when it is selected.
C1_PinCountAndVictim ==
    /\ \A f \in Frames : pages[f].pin_count >= 0
    /\ VictimTaken => last.victimPin = 0

\* C1 witness: a fetch took its victim from the chooser while another frame
\* was pinned.
C1_Witness ==
    /\ last.op = "fetch" /\ last.victim # NoFrame /\ ~last.fromFree
    /\ \E f \in Frames : f # last.victim /\ pages[f].pin_count > 0

\* C2: under all six operations a frame with pin_count > 0 is never taken as
\* a victim, and a frame with pin_count > 0 is never reusable (in the free
\* list or eligible in the chooser), in particular not after flush or
\* flush_all of a pinned page.
C2_PinnedNeverVictim ==
    /\ VictimTaken => last.victimPin = 0
    /\ \A f \in Reusable \cap Frames : pages[f].pin_count = 0

\* C3: when unpin brings the pin_count of a page to zero and unpin(id, true)
\* was called on the page while it was resident, by this call or an earlier
\* one, the store holds the page's buffer at that moment.
C3_DirtyWrittenAtZero ==
    (/\ last.op = "unpin" /\ last.resident /\ last.marked
     /\ pages[last.frame].pin_count = 0)
        => disk[last.id] = pages[last.frame].data

\* C4: a fetch that brings in a page whose holders all released it with at
\* least one unpin(id, true), after the frame that held it was given to
\* another page, returns the buffer the holders left.
C4_RoundTrip ==
    (last.op = "fetch" /\ last.ret /\ ~last.resident /\ last.expect # None)
        => pages[last.frame].data = last.expect

\* C5: a successful new_page returns the identifier AllocatePage handed out,
\* which was not in the page table, the page table maps it to the returned
\* frame, the buffer is all-zero and the pin_count is 1.
C5_NewPageResult ==
    (last.op = "new" /\ last.ret)
        => /\ last.id = next_page_id - 1
           /\ ~last.resident
           /\ last.id \in DOMAIN page_table
           /\ page_table[last.id] = last.frame
           /\ pages[last.frame].page_id = last.id
           /\ pages[last.frame].data = ZeroData
           /\ pages[last.frame].pin_count = 1

\* C6: new_page returns "unavailable" exactly when every frame had
\* pin_count > 0 at the call.
C6_UnavailableIffAllPinned ==
    last.op = "new" => (~last.ret <=> last.allPinned)

\* C7 as stated: a fetch of a resident identifier issues no ReadPage, a fetch
\* of a non-resident identifier issues exactly one, for that identifier.
C7_ReadsAsStated ==
    last.op = "fetch"
        => last.reads = IF last.resident THEN <<>> ELSE <<last.id>>

\* C7 amended: a fetch of a resident identifier issues no ReadPage; a fetch of
\* a non-resident identifier issues exactly one ReadPage, for that
\* identifier, when it obtains a frame, and none when no frame is available.
C7_Reads ==
    last.op = "fetch"
        => last.reads = IF ~last.resident /\ last.ret THEN <<last.id>> ELSE <<>>

\* C7 witness: a fetch that found the pool exhausted and read nothing, with
\* the identifier not resident.
C7_Witness ==
    /\ last.op = "fetch" /\ ~last.resident /\ ~last.ret
    /\ last.reads = <<>> /\ last.id \notin DOMAIN page_table

\* C8: after a successful fetch(id) the page table maps id to the returned
\* frame, the frame's identifier is id, its pin_count is the previous value
\* plus one for a resident page and 1 for a page brought in, and the buffer
\* of a page brought in is what the store holds for id.
C8_FetchResult ==
    (last.op = "fetch" /\ last.ret)
        => /\ last.id \in DOMAIN page_table
           /\ page_table[last.id] = last.frame
           /\ pages[last.frame].page_id = last.id
           /\ pages[last.frame].pin_count >= 1
           /\ last.resident => pages[last.frame].pin_count = last.pinBefore + 1
           /\ ~last.resident => /\ pages[last.frame].pin_count = 1
                                /\ pages[last.frame].data = disk[last.id]

\* C9: unpin returns true exactly when the identifier is in the page table
\* at the call.
C9_UnpinReturnsResident ==
    last.op = "unpin" => (last.ret <=> last.resident)

\* C10: unpin of a resident page whose pin_count is already 0 leaves the
\* pin_count 0, returns false and keeps the page table entry.
C10_UnpinAtZero ==
    (last.op = "unpin" /\ last.resident /\ last.pinBefore = 0)
        => /\ pages[last.frame].pin_count = 0
           /\ ~last.ret
           /\ last.id \in DOMAIN page_table
           /\ page_table[last.id] = last.frame

\* The number of times frame f stands in the free list.
Occurrences(f) == Cardinality({i \in DOMAIN free_list : free_list[i] = f})

\* C11: delete_page(id) of a resident page with pin_count > 0 returns false
\* and leaves the page table, the free list, the chooser's eligible set and
\* every frame's identifier, pin_count, dirty flag and buffer unchanged.
C11_DeletePinnedNoChange ==
    [][(last'.op = "delete" /\ last'.resident /\ last'.pinBefore > 0)
         => /\ ~last'.ret
            /\ UNCHANGED <<page_table, free_list, replacer, pages>>]_vars

\* C11 witness: a delete_page of a pinned resident page was refused.
C11_Witness ==
    /\ last.op = "delete" /\ last.resident /\ last.pinBefore > 0 /\ ~last.ret
    /\ last.id \in DOMAIN page_table

\* C12: delete_page(id) of a non-resident identifier returns true; of a
\* resident page with pin_count 0 it returns true, the identifier has left
\* the page table, the frame has the invalid identifier, pin_count 0 and
\* dirty false, and the frame's slot is the last element of the free list
\* and stands in it exactly once.
C12_DeleteResult ==
    /\ (last.op = "delete" /\ ~last.resident) => last.ret
    /\ (last.op = "delete" /\ last.resident /\ last.pinBefore = 0)
         => /\ last.ret
            /\ last.id \notin DOMAIN page_table
            /\ pages[last.frame].page_id = INVALID_PAGE_ID
            /\ pages[last.frame].pin_count = 0
            /\ ~pages[last.frame].is_dirty
            /\ free_list # <<>>
            /\ free_list[Len(free_list)] = last.frame
            /\ Occurrences(last.frame) = 1

\* The frames the page table maps some identifier to.
TableFrames == {page_table[id] : id \in DOMAIN page_table}

FreeFrames == {free_list[i] : i \in DOMAIN free_list}

\* C14: the page table is one-to-one, and for every entry id -> slot the
\* frame in that slot has identifier id.
C14_TableOneToOne ==
    /\ \A a, b \in DOMAIN page_table : page_table[a] = page_table[b] => a = b
    /\ \A id \in DOMAIN page_table :
          /\ page_table[id] \in Frames
          /\ pages[page_table[id]].page_id = id

\* C15: every frame slot is in exactly one of the free list and the value set
\* of the page table: in one of them, and not in both.
C15_FreeOrTracked ==
    \A f \in Frames : (f \in FreeFrames) # (f \in TableFrames)

\* C17: flush(id) returns true exactly when id is in the page table.  When it
\* is, one WritePage(id, buffer) is issued, the store holds the buffer under
\* id, id leaves the page table, the frame becomes eligible in the chooser,
\* and the frames and the free list are unchanged.  When it is not, nothing
\* is written and nothing changes.
C17_Flush ==
    [][(last'.op = "flush")
         => /\ last'.ret <=> Resident(last'.id)
            /\ Resident(last'.id)
                 => /\ last'.writes = <<last'.id>>
                    /\ disk' = WritePage(disk, last'.id,
                                         pages[page_table[last'.id]].data)
                    /\ page_table' = Erase(page_table, last'.id)
                    /\ replacer' = replacer \cup {page_table[last'.id]}
                    /\ UNCHANGED <<pages, free_list>>
            /\ ~Resident(last'.id)
                 => /\ last'.writes = <<>>
                    /\ UNCHANGED <<pages, page_table, free_list, replacer, disk>>]_vars

\* C17 witness: a flush of a resident page, pinned and with the dirty flag
\* clear, after which the store holds its buffer, which is not all-zero.
C17_Witness ==
    /\ last.op = "flush" /\ last.resident /\ last.ret
    /\ last.writes = <<last.id>> /\ last.pinBefore > 0
    /\ ~pages[last.frame].is_dirty
    /\ pages[last.frame].data # ZeroData
    /\ disk[last.id] = pages[last.frame].data
    /\ last.id \notin DOMAIN page_table
    /\ last.frame \in replacer

\* C18: a fetch of a non-resident identifier or a new_page takes the front of
\* the free list, and leaves the chooser alone, whenever the free list is
\* non-empty; it takes a frame from the chooser only when the free list is
\* empty; it reports "no victim" exactly when the free list is empty and the
\* chooser has no eligible frame, and then the free list, the page table, the
\* chooser and the frames are unchanged.
C18_VictimAcquisition ==
    [][(\/ last'.op \in {"new", "crash"}
        \/ (last'.op = "fetch" /\ ~last'.resident))
         => /\ free_list # <<>>
                 => /\ free_list' = Tail(free_list)
                    /\ replacer' = replacer
                    /\ last'.op # "crash"
                         => /\ last'.ret /\ last'.fromFree
                            /\ last'.victim = Head(free_list)
            /\ (free_list = <<>> /\ replacer # {})
                 => /\ last'.ret /\ ~last'.fromFree
                    /\ last'.victim \in replacer
                    /\ replacer' = replacer \ {last'.victim}
                    /\ free_list' = free_list
            /\ (last'.op # "crash" /\ ~last'.ret)
                 <=> (free_list = <<>> /\ replacer = {})
            /\ (free_list = <<>> /\ replacer = {})
                 => UNCHANGED <<pages, page_table, free_list, replacer>>]_vars

\* C18 witness: a frame was taken from the front of the free list while the
\* chooser had an eligible frame, which it still has.
C18_Witness ==
    /\ last.op \in {"fetch", "new"} /\ last.ret /\ last.fromFree
    /\ last.victim \in Frames
    /\ replacer # {}
    /\ last.victim \notin replacer

\* C19: a fetch or new_page that takes a victim frame leaves every page table
\* entry that did not map to that frame in place and unchanged.
C19_OnlyVictimEntryRemoved ==
    [][(last'.op \in {"fetch", "new"} /\ last'.victim # NoFrame)
         => \A id \in DOMAIN page_table :
              page_table[id] # last'.victim
                => /\ id \in DOMAIN page_table'
                   /\ page_table'[id] = page_table[id]]_vars

\* C20: no frame is leaked: every frame slot is in the free list, or eligible
\* in the chooser, or the value of some page table entry.
C20_NoFrameLeaked ==
    \A f \in Frames : f \in FreeFrames \cup replacer \cup TableFrames

\* C13: from the empty pool, after NumFrames successful new_page calls and
\* nothing else but holders' writes, every new_page and every fetch of a
\* non-resident identifier returns "unavailable"; after unpin(p, false) of
\* one of the pages, the next new_page succeeds and returns the slot that
\* held p.
C13_Capacity ==
    /\ stage.ph = "probed" => (last.op \in {"new", "fetch"} /\ ~last.ret)
    /\ stage.ph = "done"
         => (last.op = "new" /\ last.ret /\ last.frame = stage.slot)

\* C13 witness: the full pool refused a new_page and a fetch, one page was
\* unpinned, and the new_page after it returned that page's slot.
C13_Witness ==
    /\ stage.ph = "done" /\ stage.byNew /\ stage.byFetch
    /\ last.op = "new" /\ last.ret /\ last.frame = stage.slot
    /\ last.id \in DOMAIN page_table

\* The frames whose identifier is id.
FramesOf(id) == {f \in Frames : pages[f].page_id = id}

\* C16: the calls of concurrent threads take effect one after the other:
\* when two threads have each fetched the same identifier, it is in exactly
\* one frame, the page table maps it there and the frame's pin_count is 2;
\* and two threads that have each acquired a victim frame hold different
\* frames.
C16_Atomic ==
    \A t, u \in Threads :
       t # u
         => /\ (/\ threads[t].pc = "done" /\ threads[t].op = "fetch" /\ threads[t].ret
                /\ threads[u].pc = "done" /\ threads[u].op = "fetch" /\ threads[u].ret
                /\ threads[t].id = threads[u].id)
                 => /\ Cardinality(FramesOf(threads[t].id)) = 1
                    /\ threads[t].id \in DOMAIN page_table
                    /\ pages[page_table[threads[t].id]].pin_count = 2
            /\ (threads[t].pc = "install" /\ threads[u].pc = "install")
                 => threads[t].frame # threads[u].frame

====
